---- MODULE Spec2Model ----
(***************************************************************************)
(* State-machine model of the transaction envelope (core/src/proto/types.rs)*)
(* and of the block-proposal construction of the ledger shell              *)
(* (apps/src/lib/node/ledger/shell/prepare_proposal.rs).                   *)
(*                                                                         *)
(* Conventions of the model:                                               *)
(*  - a Vec<u8> payload is a natural number n, standing for a vector of n  *)
(*    bytes; a [u8; 8] salt is a natural number;                           *)
(*  - a 32-byte hash is the sequence of values fed to the hasher (SHA-256  *)
(*    is taken to be injective), the all-zero default hash is <<>>;        *)
(*  - a byte string on the wire is a record holding its length, whether    *)
(*    the outer protobuf frame decodes, and the borsh payload it carries;  *)
(*  - a Result is a record [ok |-> TRUE, val |-> v] or                     *)
(*    [ok |-> FALSE, err |-> e].                                           *)
(***************************************************************************)
EXTENDS Integers, Sequences, FiniteSets, TLC

(***************************************************************************)
(* Bounds of the model.                                                    *)
(***************************************************************************)
MaxMempool == 3
MaxQueue == 2

(***************************************************************************)
(* Program constants.                                                      *)
(***************************************************************************)
MAX_PROPOSAL_SIZE == 5 * (2 ^ 20)
HALF_MAX_PROPOSAL_SIZE == MAX_PROPOSAL_SIZE \div 2

\* Lengths of the serialized nonce (a G1 point) and authentication tag
\* (a G2 point) of a threshold ciphertext.
NONCE_LEN == 48
AUTH_TAG_LEN == 96

Ok(v) == [ok |-> TRUE, val |-> v]
Err(e) == [ok |-> FALSE, err |-> e]

ZeroHash == <<>>

\* A length-prefixed hash, as it is laid out inside a larger hashed stream.
Lp(h) == <<Len(h)>> \o h

RECURSIVE SumSeq(_)
SumSeq(s) == IF s = <<>> THEN 0 ELSE Head(s) + SumSeq(Tail(s))

(***************************************************************************)
(* Signature scheme (common::SigScheme): a signature records who signed    *)
(* what; a secret key is identified with its public key.                   *)
(***************************************************************************)
Sign(sec_key, msg) == [signer |-> sec_key, msg |-> msg]

VerifySignatureRaw(pk, msg, sig) ==
    IF sig.signer = pk /\ sig.msg = msg THEN Ok("unit") ELSE Err("SigVerifyError")

(***************************************************************************)
(* Sections.                                                               *)
(***************************************************************************)
DataSec(salt, data) == [kind |-> "Data", salt |-> salt, data |-> data]
ExtraDataSec(salt, data) == [kind |-> "ExtraData", salt |-> salt, data |-> data]
CodeSec(salt, code) == [kind |-> "Code", salt |-> salt, code |-> code]

\* Signature::new
SignatureNew(salt, target, sec_key) ==
    [kind |-> "Signature", salt |-> salt, target |-> target,
     signature |-> Sign(sec_key, target), pub_key |-> sec_key]

\* Borsh length of a section: the variant tag, then the salt and the
\* length-prefixed payload (or the hash, signature and public key); for a
\* ciphertext the length word and the three length-prefixed byte arrays,
\* the encrypted bytes being as long as the section they encrypt.
RECURSIVE SectionLen(_)
SectionLen(s) ==
    CASE s.kind = "Data" -> 1 + 8 + 4 + s.data
      [] s.kind = "ExtraData" -> 1 + 8 + 4 + s.data
      [] s.kind = "Code" -> 1 + 8 + 4 + s.code
      [] s.kind = "Signature" -> 1 + 8 + 32 + 65 + 33
      [] s.kind = "Ciphertext" ->
            1 + 4 + (4 + NONCE_LEN) + (4 + SectionLen(s.plain)) + (4 + AUTH_TAG_LEN)

\* The length word written by BorshSerialize for Ciphertext.
CiphertextWireLength(ct) == NONCE_LEN + SectionLen(ct.plain) + AUTH_TAG_LEN

\* BorshSerialize for Section: plaintext sections are written field by
\* field; a ciphertext is written as (length, nonce, ciphertext, auth_tag),
\* the length written being computed from the three byte arrays.
SerializeSection(s) ==
    IF s.kind = "Ciphertext"
    THEN [kind |-> "Ciphertext", length |-> CiphertextWireLength(s),
          key |-> s.key, nonce |-> s.nonce, plain |-> s.plain]
    ELSE s

\* BorshDeserialize for Section: the length word read back becomes the
\* length field.
DeserializeSection(w) == w

\* Ciphertext::new: the section is serialized and the bytes are encrypted
\* under pubkey; length is the number of bytes encrypted, plain the bytes
\* the ciphertext hides, nonce the randomness of the encryption.
CiphertextNew(section, pubkey, nonce) ==
    [kind |-> "Ciphertext", length |-> SectionLen(section),
     key |-> pubkey, nonce |-> nonce, plain |-> SerializeSection(section)]

\* The private key matching an encryption key.
KeyMatches(pubkey, privkey) == pubkey = privkey

\* Ciphertext::decrypt: tpke::decrypt followed by Section::try_from_slice.
\* Under a key that does not match the bytes are noise and do not parse.
CiphertextDecrypt(ct, privkey) ==
    IF KeyMatches(ct.key, privkey)
    THEN Ok(DeserializeSection(ct.plain))
    ELSE Err("io::Error")

\* Section::hash without the tag byte.
RECURSIVE SectionHash_noTag(_)
SectionHash_noTag(s) ==
    CASE s.kind = "Data" -> <<s.salt, s.data>>
      [] s.kind = "ExtraData" -> <<s.salt, s.data>>
      [] s.kind = "Code" -> <<s.salt, s.code>>
      [] s.kind = "Signature" ->
            <<s.salt>> \o Lp(s.target)
                \o <<s.signature.signer>> \o Lp(s.signature.msg) \o <<s.pub_key>>
      [] s.kind = "Ciphertext" ->
            <<s.key, s.nonce>> \o SectionHash_noTag(s.plain)

\* Section::hash: the tag byte followed by the fields in order.
RECURSIVE SectionHash(_)
SectionHash(s) ==
    CASE s.kind = "Data" -> <<0, s.salt, s.data>>
      [] s.kind = "ExtraData" -> <<1, s.salt, s.data>>
      [] s.kind = "Code" -> <<2, s.salt, s.code>>
      [] s.kind = "Signature" ->
            <<3, s.salt>> \o Lp(s.target)
                \o <<s.signature.signer>> \o Lp(s.signature.msg) \o <<s.pub_key>>
      [] s.kind = "Ciphertext" ->
            <<4, s.key, s.nonce>> \o SectionHash(s.plain)

(***************************************************************************)
(* Transaction headers (TxType).                                           *)
(***************************************************************************)
RawHeader(code_hash, data_hash) ==
    [type |-> "Raw", code_hash |-> code_hash, data_hash |-> data_hash]

WrapperHeader(pk, code_hash, data_hash) ==
    [type |-> "Wrapper", pk |-> pk, code_hash |-> code_hash, data_hash |-> data_hash]

DecryptedHeader(header_hash, code_hash, data_hash, has_valid_pow) ==
    [type |-> "Decrypted", header_hash |-> header_hash, code_hash |-> code_hash,
     data_hash |-> data_hash, has_valid_pow |-> has_valid_pow]

UndecryptableHeader(wrapper) == [type |-> "Undecryptable", wrapper |-> wrapper]

\* TxType::hash: the header's variant and fields fed to the hasher.
RECURSIVE TxTypeHash(_)
TxTypeHash(h) ==
    CASE h.type = "Raw" -> <<100>> \o Lp(h.code_hash) \o Lp(h.data_hash)
      [] h.type = "Wrapper" -> <<101, h.pk>> \o Lp(h.code_hash) \o Lp(h.data_hash)
      [] h.type = "Decrypted" ->
            <<102, IF h.has_valid_pow THEN 1 ELSE 0>> \o Lp(h.header_hash)
                \o Lp(h.code_hash) \o Lp(h.data_hash)
      [] h.type = "Undecryptable" -> <<103>> \o TxTypeHash(h.wrapper)

(***************************************************************************)
(* The transaction envelope (Tx).  outer_extra stands for the free-length  *)
(* byte fields of the envelope that carry no section.                      *)
(***************************************************************************)
Some(v) == [some |-> TRUE, val |-> v]
None == [some |-> FALSE]

\* Tx::new
TxNew(header) == [outer_data |-> header, outer_extra |-> 0, sections |-> <<>>]

\* Tx::header
TxHeader(tx) == tx.outer_data

\* Tx::header_hash
TxHeaderHash(tx) == TxTypeHash(tx.outer_data)

\* Tx::get_section: the first section whose hash is the one asked for.
RECURSIVE GetSectionFrom(_, _, _)
GetSectionFrom(sections, i, hash) ==
    IF i > Len(sections) THEN None
    ELSE IF SectionHash(sections[i]) = hash THEN Some(sections[i])
    ELSE GetSectionFrom(sections, i + 1, hash)

TxGetSection(tx, hash) == GetSectionFrom(tx.sections, 1, hash)

\* Tx::add_section
TxAddSection(tx, section) == [tx EXCEPT !.sections = Append(@, section)]

\* Tx::code_hash
TxCodeHash(tx) ==
    IF tx.outer_data.type = "Undecryptable"
    THEN tx.outer_data.wrapper.code_hash
    ELSE tx.outer_data.code_hash

\* Tx::set_code_hash
TxSetCodeHash(tx, hash) ==
    IF tx.outer_data.type = "Undecryptable"
    THEN [tx EXCEPT !.outer_data.wrapper.code_hash = hash]
    ELSE [tx EXCEPT !.outer_data.code_hash = hash]

\* Tx::code
TxCode(tx) ==
    LET found == TxGetSection(tx, TxCodeHash(tx))
    IN  IF found.some /\ found.val.kind = "Code" THEN Some(found.val.code) ELSE None

\* Tx::set_code pushing the section without writing its hash to the header.
TxSetCode_keepHash(tx, code) == [tx EXCEPT !.sections = Append(@, code)]

\* Tx::set_code
TxSetCode(tx, code) ==
    LET withHash == TxSetCodeHash(tx, SectionHash(code))
    IN  [withHash EXCEPT !.sections = Append(@, code)]

\* Tx::data_hash
TxDataHash(tx) ==
    IF tx.outer_data.type = "Undecryptable"
    THEN tx.outer_data.wrapper.data_hash
    ELSE tx.outer_data.data_hash

\* Tx::set_data_hash
TxSetDataHash(tx, hash) ==
    IF tx.outer_data.type = "Undecryptable"
    THEN [tx EXCEPT !.outer_data.wrapper.data_hash = hash]
    ELSE [tx EXCEPT !.outer_data.data_hash = hash]

\* Tx::set_data
TxSetData(tx, data) ==
    LET withHash == TxSetDataHash(tx, SectionHash(data))
    IN  [withHash EXCEPT !.sections = Append(@, data)]

\* Tx::data
TxData(tx) ==
    LET found == TxGetSection(tx, TxDataHash(tx))
    IN  IF found.some /\ found.val.kind = "Data" THEN Some(found.val.data) ELSE None

\* Length of the bytes produced by Tx::to_bytes, counting the serialized
\* sections and the free-length fields.
EncodedLen(tx) ==
    tx.outer_extra + SumSeq([i \in 1..Len(tx.sections) |-> SectionLen(tx.sections[i])])

\* Tx::to_bytes: the borsh encoding of the envelope, framed as the one
\* bytes field of the outer protobuf message.
TxToBytes(tx) ==
    [len |-> EncodedLen(tx),
     frame |-> TRUE,
     data |-> [ok |-> TRUE,
               outer_data |-> tx.outer_data,
               outer_extra |-> tx.outer_extra,
               sections |-> [i \in 1..Len(tx.sections) |->
                                SerializeSection(tx.sections[i])]]]

\* TryFrom<&[u8]> for Tx: first the protobuf frame, then the borsh payload.
TxTryFrom(tx_bytes) ==
    IF ~tx_bytes.frame THEN Err("TxDecodingError")
    ELSE IF ~tx_bytes.data.ok THEN Err("TxDeserializingError")
    ELSE Ok([outer_data |-> tx_bytes.data.outer_data,
             outer_extra |-> tx_bytes.data.outer_extra,
             sections |-> [i \in 1..Len(tx_bytes.data.sections) |->
                              DeserializeSection(tx_bytes.data.sections[i])]])

\* Tx::verify_signature: the verification result of the first signature
\* section with this public key and target.
RECURSIVE VerifySignatureFrom(_, _, _, _)
VerifySignatureFrom(sections, i, pk, hash) ==
    IF i > Len(sections) THEN Err("MissingData")
    ELSE IF /\ sections[i].kind = "Signature"
            /\ sections[i].pub_key = pk
            /\ sections[i].target = hash
         THEN VerifySignatureRaw(pk, hash, sections[i].signature)
    ELSE VerifySignatureFrom(sections, i + 1, pk, hash)

\* Tx::verify_signature matching a signature section on its key alone.
TxVerifySignature_ignoreTarget(tx, pk, hash) ==
    LET matching == {i \in 1..Len(tx.sections) :
                        tx.sections[i].kind = "Signature" /\ tx.sections[i].pub_key = pk}
    IN  IF matching = {} THEN Err("MissingData")
        ELSE VerifySignatureRaw(
                 pk, hash,
                 tx.sections[CHOOSE i \in matching : \A j \in matching : i <= j].signature)

TxVerifySignature(tx, pk, hash) == VerifySignatureFrom(tx.sections, 1, pk, hash)

\* The loop ending after the first ciphertext it replaced.
DecryptSections_firstOnly(sections, i, privkey) ==
    LET cts == {j \in i..Len(sections) : sections[j].kind = "Ciphertext"}
    IN  IF cts = {} THEN [ok |-> TRUE, sections |-> sections]
        ELSE LET j == CHOOSE j \in cts : \A m \in cts : j <= m
                 r == CiphertextDecrypt(sections[j], privkey)
             IN  IF r.ok
                 THEN [ok |-> TRUE, sections |-> [sections EXCEPT ![j] = r.val]]
                 ELSE [ok |-> FALSE, sections |-> sections]

\* The loop of Tx::decrypt: ciphertext sections are replaced in place, one
\* after the other; the first one that fails ends the loop with the
\* sections as they are at that point.
RECURSIVE DecryptSections(_, _, _)
DecryptSections(sections, i, privkey) ==
    IF i > Len(sections) THEN [ok |-> TRUE, sections |-> sections]
    ELSE IF sections[i].kind = "Ciphertext"
         THEN LET r == CiphertextDecrypt(sections[i], privkey)
              IN  IF r.ok
                  THEN DecryptSections([sections EXCEPT ![i] = r.val], i + 1, privkey)
                  ELSE [ok |-> FALSE, sections |-> sections]
         ELSE DecryptSections(sections, i + 1, privkey)

\* Tx::decrypt without the test of the code section.
TxDecrypt_skipCodeCheck(tx, privkey) ==
    LET d == DecryptSections(tx.sections, 1, privkey)
        after == [tx EXCEPT !.sections = d.sections]
    IN  IF ~d.ok THEN [result |-> Err("InvalidTx"), tx |-> after]
        ELSE IF ~TxData(after).some THEN [result |-> Err("DecryptedHash"), tx |-> after]
        ELSE [result |-> Ok("unit"), tx |-> after]

\* Tx::decrypt(&mut self, privkey): the result and the envelope as the call
\* leaves it.
TxDecrypt(tx, privkey) ==
    LET d == DecryptSections(tx.sections, 1, privkey)
        after == [tx EXCEPT !.sections = d.sections]
    IN  IF ~d.ok THEN [result |-> Err("InvalidTx"), tx |-> after]
        ELSE IF ~TxData(after).some THEN [result |-> Err("DecryptedHash"), tx |-> after]
        ELSE IF ~TxCode(after).some THEN [result |-> Err("DecryptedHash"), tx |-> after]
        ELSE [result |-> Ok("unit"), tx |-> after]

\* Tx::encrypt sparing every signature section, whatever its target.
TxEncrypt_exemptAllSignatures(tx, pubkey, nonce) ==
    [tx EXCEPT !.sections =
        [i \in 1..Len(tx.sections) |->
            IF tx.sections[i].kind = "Signature"
            THEN tx.sections[i]
            ELSE CiphertextNew(tx.sections[i], pubkey, nonce)]]

\* Tx::encrypt without the exemption: every section becomes a ciphertext.
TxEncrypt_encryptAll(tx, pubkey, nonce) ==
    [tx EXCEPT !.sections =
        [i \in 1..Len(tx.sections) |-> CiphertextNew(tx.sections[i], pubkey, nonce)]]

\* Tx::encrypt(&mut self, pubkey): every section but a signature over the
\* header hash becomes a ciphertext of itself; nonce is the randomness drawn.
TxEncrypt(tx, pubkey, nonce) ==
    LET header_hash == TxHeaderHash(tx)
    IN  [tx EXCEPT !.sections =
            [i \in 1..Len(tx.sections) |->
                IF tx.sections[i].kind = "Signature" /\ tx.sections[i].target = header_hash
                THEN tx.sections[i]
                ELSE CiphertextNew(tx.sections[i], pubkey, nonce)]]

(***************************************************************************)
(* The ledger shell: prepare_proposal.                                     *)
(***************************************************************************)
VARIABLES
    mode,           \* Shell::mode: "Validator" or "Full"
    abcipp,         \* whether the build has the "abcipp" feature (tagged records)
    tx_queue,       \* Shell::storage.tx_queue: sequence of TxInQueue
    req,            \* RequestPrepareProposal.txs of the request in flight
    answered,       \* whether prepare_proposal has answered req
    resp,           \* response::PrepareProposal txs / tx_records
    queue_at_call,  \* history: tx_queue when prepare_proposal was entered
    resolved,       \* history: entries of tx_queue a proposal has resolved
    resolved_before,\* history: resolved, when prepare_proposal was entered
    reemitted,      \* history: of those, how many the last proposal emitted again
    client_tx,      \* an envelope a client works on
    client_op,      \* the last operation applied to client_tx
    client_result,  \* what that operation returned
    client_before,  \* history: client_tx before that operation
    client_plain,   \* history: the envelope and key of the encrypt that the
                    \* last operation is or directly follows, if any
    client_code,    \* history: the argument of the last set_code, if no
                    \* encrypt or decrypt came after it
    client_data,    \* history: the argument of the last set_data, likewise
    vps,            \* the validity predicate stored for each address
    vps_before      \* history: vps before the last apply_tx

shellVars == <<mode, abcipp, tx_queue, req, answered, resp, queue_at_call,
               resolved, resolved_before, reemitted>>
txVars == <<client_tx, client_op, client_result, client_before, client_plain,
            client_code, client_data>>
vpVars == <<vps, vps_before>>
vars == <<shellVars, txVars, vpVars>>

ShellModes == {"Validator", "Full"}

\* The addresses whose validity predicate a transaction may update, and
\* the storage before any update.
VpAddresses == {"a1", "a2"}
NoVps == [a \in VpAddresses |-> None]

\* The private key prepare_proposal decrypts with: the generator of the
\* prime subgroup; an encryption key is named by the private key it matches.
PrivkeyGenerator == 0
EncryptionKeys == {PrivkeyGenerator, PrivkeyGenerator + 1}

\* TxInQueue
TxInQueue(tx, inner_tx, has_valid_pow) ==
    [tx |-> tx, inner_tx |-> inner_tx, has_valid_pow |-> has_valid_pow]

\* process_tx: a wrapper must carry a valid signature of its public key
\* over the header hash; other transactions pass.
ProcessTx(tx) ==
    IF tx.outer_data.type = "Wrapper"
    THEN IF TxVerifySignature(tx, tx.outer_data.pk, TxHeaderHash(tx)).ok
         THEN Ok(tx)
         ELSE Err("SigError")
    ELSE Ok(tx)

\* record::keep, record::add, record::remove
RecordKeep(tx) == [action |-> "Unmodified", tx |-> tx]
RecordAdd(tx) == [action |-> "Added", tx |-> tx]
RecordRemove(tx) == [action |-> "Removed", tx |-> tx]

\* The filter without its test of the header: any decodable candidate passes.
IsProcessedWrapper_anyDecodable(tx_bytes) == TxTryFrom(tx_bytes).ok

\* The filter without the call of process_tx: a decodable candidate under a
\* Wrapper header passes.
IsProcessedWrapper_ignoreProcessing(tx_bytes) ==
    LET decoded == TxTryFrom(tx_bytes)
    IN  decoded.ok /\ TxHeader(decoded.val).type = "Wrapper"

\* The test of the mempool filter:
\* if let Ok(Ok(TxType::Wrapper(_))) = Tx::try_from(bytes).map(process_tx ...)
IsProcessedWrapper(tx_bytes) ==
    LET decoded == TxTryFrom(tx_bytes)
    IN  /\ decoded.ok
        /\ LET processed == ProcessTx(decoded.val)
           IN  processed.ok /\ TxHeader(processed.val).type = "Wrapper"

\* The budget test with the comparison off by one.
OverBudget_inclusive(new_size) == new_size >= HALF_MAX_PROPOSAL_SIZE

\* The budget test of take_while.
OverBudget(new_size) == new_size > HALF_MAX_PROPOSAL_SIZE

\* The filter_map answering Some for every candidate.
FilterMapWrappers_keepAll(txs) == txs

\* filter_map of the plain-list build: rejected candidates are left out.
FilterMapWrappers(txs) == SelectSeq(txs, IsProcessedWrapper)

\* take_while of the plain-list build, total_proposal_size being the
\* captured running total.
RECURSIVE TakeWhileTxs(_, _)
TakeWhileTxs(txs, total_proposal_size) ==
    IF txs = <<>> THEN <<>>
    ELSE LET new_size == total_proposal_size + Head(txs).len
         IN  IF OverBudget(new_size) THEN <<>>
             ELSE <<Head(txs)>> \o TakeWhileTxs(Tail(txs), new_size)

\* map of the tagged build: every candidate becomes a record.
MapToRecords(txs) ==
    [i \in 1..Len(txs) |->
        IF IsProcessedWrapper(txs[i]) THEN RecordKeep(txs[i]) ELSE RecordRemove(txs[i])]

\* take_while of the tagged build: it ends at the first record over budget
\* or not Unmodified.
RECURSIVE TakeWhileRecords(_, _)
TakeWhileRecords(records, total_proposal_size) ==
    IF records = <<>> THEN <<>>
    ELSE LET new_size == total_proposal_size + Head(records).tx.len
         IN  IF OverBudget(new_size) \/ Head(records).action # "Unmodified" THEN <<>>
             ELSE <<Head(records)>> \o TakeWhileRecords(Tail(records), new_size)

\* The resolved header taking the hashes of the inner envelope's header
\* instead of those of the entry's wrapper.
ResolvedHeader_innerHashes(entry, inner_tx) ==
    DecryptedHeader(TxHeaderHash(inner_tx), TxCodeHash(inner_tx),
                    TxDataHash(inner_tx), entry.has_valid_pow)

\* The header given to a queue entry whose decryption succeeded; inner_tx
\* is the decrypted copy, still under the header it was stored with.
ResolvedHeader(entry, inner_tx) ==
    DecryptedHeader(TxHeaderHash(inner_tx), entry.tx.code_hash,
                    entry.tx.data_hash, entry.has_valid_pow)

\* The closure giving the new header to the stored inner envelope instead
\* of the copy it decrypted.
DecryptEntry_storedEnvelope(entry, privkey) ==
    LET decrypted == TxDecrypt(entry.inner_tx, privkey)
        inner_tx == entry.inner_tx
    IN  IF decrypted.result.ok
        THEN TxToBytes([inner_tx EXCEPT !.outer_data = ResolvedHeader(entry, inner_tx)])
        ELSE TxToBytes([inner_tx EXCEPT !.outer_data = UndecryptableHeader(entry.tx)])

\* The closure mapped over tx_queue: a copy of the stored inner envelope is
\* decrypted, and the copy, as decrypt left it, gets the new header.
DecryptEntry(entry, privkey) ==
    LET decrypted == TxDecrypt(entry.inner_tx, privkey)
        inner_tx == decrypted.tx
    IN  IF decrypted.result.ok
        THEN TxToBytes([inner_tx EXCEPT !.outer_data = ResolvedHeader(entry, inner_tx)])
        ELSE TxToBytes([inner_tx EXCEPT !.outer_data = UndecryptableHeader(entry.tx)])

\* The map ending at the first entry that fails to decrypt.
DecryptedTxs_stopAtFailure(queue, privkey) ==
    LET failing == {i \in 1..Len(queue) : ~TxDecrypt(queue[i].inner_tx, privkey).result.ok}
        last == IF failing = {} THEN Len(queue)
                ELSE (CHOOSE i \in failing : \A j \in failing : i <= j) - 1
    IN  [i \in 1..last |-> DecryptEntry(queue[i], privkey)]

DecryptedTxs(queue, privkey) ==
    [i \in 1..Len(queue) |-> DecryptEntry(queue[i], privkey)]

\* The append with its operands exchanged.
AppendDecrypted_front(txs, decrypted_txs) == decrypted_txs \o txs

\* txs.append(&mut decrypted_txs)
AppendDecrypted(txs, decrypted_txs) == txs \o decrypted_txs

\* The proposal built without the test of the mode.
BuildProposal_ignoreMode(shell_mode, tagged, txs, queue) ==
    IF tagged
    THEN AppendDecrypted(
             TakeWhileRecords(MapToRecords(txs), 0),
             [i \in 1..Len(queue) |->
                 RecordAdd(DecryptedTxs(queue, PrivkeyGenerator)[i])])
    ELSE AppendDecrypted(
             TakeWhileTxs(FilterMapWrappers(txs), 0),
             DecryptedTxs(queue, PrivkeyGenerator))

\* The value prepare_proposal returns.
BuildProposal(shell_mode, tagged, txs, queue) ==
    IF shell_mode = "Validator"
    THEN IF tagged
         THEN AppendDecrypted(
                  TakeWhileRecords(MapToRecords(txs), 0),
                  [i \in 1..Len(queue) |->
                      RecordAdd(DecryptedTxs(queue, PrivkeyGenerator)[i])])
         ELSE AppendDecrypted(
                  TakeWhileTxs(FilterMapWrappers(txs), 0),
                  DecryptedTxs(queue, PrivkeyGenerator))
    ELSE <<>>

\* The queue drained by the proposal.
QueueAfterProposal_drain(queue) == <<>>

\* The queue losing its first entry to the proposal.
QueueAfterProposal_pop(queue) == IF queue = <<>> THEN queue ELSE Tail(queue)

\* prepare_proposal takes &self: the queue is iterated, the storage is left
\* as it is.
QueueAfterProposal(queue) == queue

(***************************************************************************)
(* The transactions the environment supplies.                              *)
(***************************************************************************)
WrapperSigner == 1

\* A wrapper built the way clients build it: code, data, then a signature
\* over the header hash.
SignedWrapperTx(data) ==
    LET t0 == TxNew(WrapperHeader(WrapperSigner, ZeroHash, ZeroHash))
        t1 == TxSetCode(t0, CodeSec(0, 1))
        t2 == TxSetData(t1, DataSec(0, data))
    IN  TxAddSection(t2, SignatureNew(0, TxHeaderHash(t2), WrapperSigner))

\* The same without the signature section.
UnsignedWrapperTx(data) ==
    LET t0 == TxNew(WrapperHeader(WrapperSigner, ZeroHash, ZeroHash))
        t1 == TxSetCode(t0, CodeSec(0, 1))
    IN  TxSetData(t1, DataSec(0, data))

RawTx(data) ==
    LET t0 == TxNew(RawHeader(ZeroHash, ZeroHash))
        t1 == TxSetCode(t0, CodeSec(0, 1))
    IN  TxSetData(t1, DataSec(0, data))

\* tx with its free-length fields filled so that it encodes to len bytes.
PaddedTo(tx, len) == [tx EXCEPT !.outer_extra = len - EncodedLen(tx)]

\* tx with the ciphertext at index i made under another encryption key.
WithForeignKey(tx, i) == [tx EXCEPT !.sections[i].key = PrivkeyGenerator + 1]

SizeSmall == HALF_MAX_PROPOSAL_SIZE \div 5
SizeA == 2 * SizeSmall
SizeB == HALF_MAX_PROPOSAL_SIZE - SizeA

\* Mempool candidates: two signed wrappers that together fill the budget
\* exactly, and four candidates the filter rejects.
WrapperBytesA == TxToBytes(PaddedTo(TxEncrypt(SignedWrapperTx(1), PrivkeyGenerator, 0), SizeA))
WrapperBytesB == TxToBytes(PaddedTo(TxEncrypt(SignedWrapperTx(2), PrivkeyGenerator, 0), SizeB))
UnsignedBytes == TxToBytes(PaddedTo(TxEncrypt(UnsignedWrapperTx(1), PrivkeyGenerator, 0), SizeSmall))
RawBytes == TxToBytes(PaddedTo(RawTx(1), SizeSmall))
BadFrameBytes == [len |-> SizeSmall, frame |-> FALSE]
BadSchemaBytes == [len |-> SizeSmall, frame |-> TRUE, data |-> [ok |-> FALSE]]

Candidates ==
    {WrapperBytesA, WrapperBytesB, UnsignedBytes, RawBytes, BadFrameBytes, BadSchemaBytes}

\* Queue entries: one that decrypts, one that decrypts but was enqueued
\* under a wrapper header naming other hashes, and one whose second
\* ciphertext is under a foreign key.
EntryGood ==
    LET inner == PaddedTo(TxEncrypt(SignedWrapperTx(1), PrivkeyGenerator, 0), SizeB)
    IN  TxInQueue(inner.outer_data, inner, FALSE)

EntryOtherHeader ==
    LET inner == PaddedTo(TxEncrypt(SignedWrapperTx(2), PrivkeyGenerator, 0), SizeB)
    IN  TxInQueue(WrapperHeader(WrapperSigner, <<2, 1, 1>>, <<0, 1, 1>>), inner, TRUE)

EntryForeignKey ==
    LET inner == PaddedTo(
                     WithForeignKey(TxEncrypt(SignedWrapperTx(3), PrivkeyGenerator, 0), 2),
                     SizeB)
    IN  TxInQueue(inner.outer_data, inner, TRUE)

QueueEntries == {EntryGood, EntryOtherHeader, EntryForeignKey}

(***************************************************************************)
(* The shell as a state machine.                                           *)
(***************************************************************************)
Init ==
    /\ mode \in ShellModes
    /\ abcipp \in BOOLEAN
    /\ tx_queue = <<>>
    /\ req = <<>>
    /\ answered = FALSE
    /\ resp = <<>>
    /\ queue_at_call = <<>>
    /\ resolved = 0
    /\ resolved_before = 0
    /\ reemitted = 0
    /\ client_tx = TxNew(WrapperHeader(WrapperSigner, ZeroHash, ZeroHash))
    /\ client_op = "new"
    /\ client_result = Ok("unit")
    /\ client_before = client_tx
    /\ client_plain = None
    /\ client_code = None
    /\ client_data = None
    /\ vps = NoVps
    /\ vps_before = NoVps

\* Shell::enqueue_tx, called when a block with a wrapper is finalized,
\* before the next proposal is asked for.
EnqueueTx(entry) ==
    /\ ~answered
    /\ req = <<>>
    /\ Len(tx_queue) < MaxQueue
    /\ tx_queue' = Append(tx_queue, entry)
    /\ UNCHANGED <<mode, abcipp, req, answered, resp, queue_at_call, resolved,
                   resolved_before, reemitted, txVars, vpVars>>

\* The consensus engine adds a mempool transaction to the request.
MempoolTx(tx_bytes) ==
    /\ ~answered
    /\ Len(req) < MaxMempool
    /\ req' = Append(req, tx_bytes)
    /\ UNCHANGED <<mode, abcipp, tx_queue, answered, resp, queue_at_call, resolved,
                   resolved_before, reemitted, txVars, vpVars>>

\* Shell::prepare_proposal(&self, req)
PrepareProposal ==
    /\ ~answered
    /\ resp' = BuildProposal(mode, abcipp, req, tx_queue)
    /\ tx_queue' = QueueAfterProposal(tx_queue)
    /\ answered' = TRUE
    /\ queue_at_call' = tx_queue
    /\ resolved' = IF mode = "Validator" THEN Len(tx_queue') ELSE resolved
    /\ resolved_before' = resolved
    /\ reemitted' = IF mode = "Validator"
                    THEN Cardinality({i \in 1..Len(tx_queue) : i <= resolved})
                    ELSE 0
    /\ UNCHANGED <<mode, abcipp, req, txVars, vpVars>>

\* The response is delivered and the next height begins.
NextHeight ==
    /\ answered
    /\ req' = <<>>
    /\ resp' = <<>>
    /\ answered' = FALSE
    /\ queue_at_call' = <<>>
    /\ resolved_before' = 0
    /\ reemitted' = 0
    /\ UNCHANGED <<mode, abcipp, tx_queue, resolved, txVars, vpVars>>

Next ==
    \/ \E entry \in QueueEntries : EnqueueTx(entry)
    \/ \E tx_bytes \in Candidates : MempoolTx(tx_bytes)
    \/ PrepareProposal
    \/ NextHeight

Spec == Init /\ [][Next]_vars

(***************************************************************************)
(* A client working on one envelope through the methods of Tx.             *)
(***************************************************************************)
MaxSections == 3
MaxNesting == 1

RECURSIVE Nesting(_)
Nesting(s) == IF s.kind = "Ciphertext" THEN 1 + Nesting(s.plain) ELSE 0

Codes == {CodeSec(0, 1)}
Datas == {DataSec(0, 1), DataSec(1, 1)}

\* Sections a client passes to add_section: extra data, a signature over
\* the header hash, or a ciphertext made elsewhere under some key.
SectionsToAdd(t) ==
    {ExtraDataSec(0, 2), SignatureNew(0, TxHeaderHash(t), WrapperSigner)}
        \cup {CiphertextNew(DataSec(0, 2), k, 1) : k \in EncryptionKeys}

InitTx ==
    /\ mode = "Validator"
    /\ abcipp = FALSE
    /\ tx_queue = <<>>
    /\ req = <<>>
    /\ answered = FALSE
    /\ resp = <<>>
    /\ queue_at_call = <<>>
    /\ resolved = 0
    /\ resolved_before = 0
    /\ reemitted = 0
    /\ client_tx \in {TxNew(WrapperHeader(WrapperSigner, ZeroHash, ZeroHash)),
               TxNew(RawHeader(ZeroHash, ZeroHash))}
    /\ client_op = "new"
    /\ client_result = Ok("unit")
    /\ client_before = client_tx
    /\ client_plain = None
    /\ client_code = None
    /\ client_data = None
    /\ vps = NoVps
    /\ vps_before = NoVps

\* tx.set_code(code)
SetCode(code) ==
    /\ Len(client_tx.sections) < MaxSections
    /\ client_tx' = TxSetCode(client_tx, code)
    /\ client_op' = "set_code"
    /\ client_result' = Ok("unit")
    /\ client_before' = client_tx
    /\ client_plain' = None
    /\ client_code' = Some(code)
    /\ client_data' = client_data
    /\ UNCHANGED <<shellVars, vpVars>>

\* tx.set_data(data)
SetData(data) ==
    /\ Len(client_tx.sections) < MaxSections
    /\ client_tx' = TxSetData(client_tx, data)
    /\ client_op' = "set_data"
    /\ client_result' = Ok("unit")
    /\ client_before' = client_tx
    /\ client_plain' = None
    /\ client_code' = client_code
    /\ client_data' = Some(data)
    /\ UNCHANGED <<shellVars, vpVars>>

\* tx.add_section(section)
AddSection(section) ==
    /\ Len(client_tx.sections) < MaxSections
    /\ client_tx' = TxAddSection(client_tx, section)
    /\ client_op' = "add_section"
    /\ client_result' = Ok("unit")
    /\ client_before' = client_tx
    /\ client_plain' = None
    /\ UNCHANGED <<client_code, client_data>>
    /\ UNCHANGED <<shellVars, vpVars>>

\* tx.encrypt(pubkey)
Encrypt(pubkey) ==
    /\ \A i \in 1..Len(client_tx.sections) : Nesting(client_tx.sections[i]) < MaxNesting
    /\ client_tx' = TxEncrypt(client_tx, pubkey, 0)
    /\ client_op' = "encrypt"
    /\ client_result' = Ok("unit")
    /\ client_before' = client_tx
    /\ client_plain' = Some([tx |-> client_tx, key |-> pubkey])
    /\ client_code' = None
    /\ client_data' = None
    /\ UNCHANGED <<shellVars, vpVars>>

\* tx.decrypt(privkey), with the key of the proposer
Decrypt ==
    /\ client_tx' = TxDecrypt(client_tx, PrivkeyGenerator).tx
    /\ client_op' = "decrypt"
    /\ client_result' = TxDecrypt(client_tx, PrivkeyGenerator).result
    /\ client_before' = client_tx
    /\ client_plain' = IF client_op = "encrypt" THEN client_plain ELSE None
    /\ client_code' = None
    /\ client_data' = None
    /\ UNCHANGED <<shellVars, vpVars>>

NextTx ==
    \/ \E code \in Codes : SetCode(code)
    \/ \E data \in Datas : SetData(data)
    \/ \E section \in SectionsToAdd(client_tx) : AddSection(section)
    \/ \E pubkey \in EncryptionKeys : Encrypt(pubkey)
    \/ Decrypt

SpecTx == InitTx /\ [][NextTx]_vars

(***************************************************************************)
(* A client building a plaintext envelope under any header, also from      *)
(* sections received as bytes.                                             *)
(***************************************************************************)
\* The headers a client passes to Tx::new, one of each variant.
NewHeaders ==
    {WrapperHeader(WrapperSigner, ZeroHash, ZeroHash),
     RawHeader(ZeroHash, ZeroHash),
     DecryptedHeader(ZeroHash, ZeroHash, ZeroHash, FALSE),
     UndecryptableHeader(WrapperHeader(WrapperSigner, ZeroHash, ZeroHash))}

\* Code sections passed to set_code: the same code under two salts.
BuildCodes == {CodeSec(0, 1), CodeSec(1, 1)}

\* A signature section as BorshDeserialize yields it from bytes written by
\* someone who does not hold the secret key of pub_key.
ForgedSignature(salt, target, pub_key) ==
    [kind |-> "Signature", salt |-> salt, target |-> target,
     signature |-> Sign(pub_key + 1, target), pub_key |-> pub_key]

\* Sections passed to add_section: extra data and code with the salt and
\* payload of a data section, a signature over the header hash, a forged
\* one, and a ciphertext that hides a signature over the header hash.
BuildSections(t) ==
    {ExtraDataSec(0, 1),
     CodeSec(0, 1),
     SignatureNew(0, TxHeaderHash(t), WrapperSigner),
     ForgedSignature(1, TxHeaderHash(t), WrapperSigner),
     CiphertextNew(SignatureNew(0, TxHeaderHash(t), WrapperSigner), PrivkeyGenerator, 1)}

InitBuild ==
    /\ mode = "Validator"
    /\ abcipp = FALSE
    /\ tx_queue = <<>>
    /\ req = <<>>
    /\ answered = FALSE
    /\ resp = <<>>
    /\ queue_at_call = <<>>
    /\ resolved = 0
    /\ resolved_before = 0
    /\ reemitted = 0
    /\ client_tx \in {TxNew(header) : header \in NewHeaders}
    /\ client_op = "new"
    /\ client_result = Ok("unit")
    /\ client_before = client_tx
    /\ client_plain = None
    /\ client_code = None
    /\ client_data = None
    /\ vps = NoVps
    /\ vps_before = NoVps

NextBuild ==
    \/ \E code \in BuildCodes : SetCode(code)
    \/ \E data \in Datas : SetData(data)
    \/ \E section \in BuildSections(client_tx) : AddSection(section)

SpecBuild == InitBuild /\ [][NextBuild]_vars

(***************************************************************************)
(* tx_update_vp: the transaction that updates a validity predicate.        *)
(***************************************************************************)
\* Sections a validity predicate update may name.
VpCodeA == ExtraDataSec(0, 7)
VpCodeB == ExtraDataSec(0, 8)
VpAsCode == CodeSec(0, 7)
VpAsData == DataSec(1, 7)
VpAsSignature == SignatureNew(0, ZeroHash, WrapperSigner)
VpAsCiphertext == CiphertextNew(VpCodeA, PrivkeyGenerator, 1)

\* The data payloads that are the borsh bytes of an UpdateVp, and the value
\* each decodes to; every other payload fails to decode.
UpdateVpBytes ==
    (41 :> [addr |-> "a1", vp_code |-> SectionHash(VpCodeA)])
        @@ (42 :> [addr |-> "a2", vp_code |-> SectionHash(VpCodeB)])
        @@ (43 :> [addr |-> "a1", vp_code |-> SectionHash(VpAsCode)])
        @@ (44 :> [addr |-> "a1", vp_code |-> SectionHash(VpAsData)])
        @@ (45 :> [addr |-> "a1", vp_code |-> SectionHash(VpAsSignature)])
        @@ (46 :> [addr |-> "a1", vp_code |-> SectionHash(VpAsCiphertext)])

\* transaction::UpdateVp::try_from_slice
DecodeUpdateVp(data) ==
    IF data \in DOMAIN UpdateVpBytes
    THEN Ok(UpdateVpBytes[data])
    ELSE Err("failed to decode UpdateVp")

\* Section::extra_data
SectionExtraData(section) ==
    IF section.kind = "ExtraData" THEN Some(section) ELSE None

\* ctx.update_validity_predicate(addr, code)
UpdateValidityPredicate(stored, addr, code) == [stored EXCEPT ![addr] = Some(code)]

\* apply_tx taking the payload of a Data section as well as that of an
\* ExtraData section for the code of the predicate.
ApplyTxOn_dataOrExtra(stored, tx) ==
    LET data == TxData(tx)
    IN  IF ~data.some THEN [result |-> Err("Missing data"), vps |-> stored]
        ELSE LET update_vp == DecodeUpdateVp(data.val)
             IN  IF ~update_vp.ok
                 THEN [result |-> Err("failed to decode UpdateVp"), vps |-> stored]
                 ELSE LET section == TxGetSection(tx, update_vp.val.vp_code)
                      IN  IF ~section.some
                          THEN [result |-> Err("vp code section not found"),
                                vps |-> stored]
                          ELSE IF section.val.kind \notin {"ExtraData", "Data"}
                          THEN [result |-> Err("vp code section must be tagged as extra"),
                                vps |-> stored]
                          ELSE [result |-> Ok("unit"),
                                vps |-> UpdateValidityPredicate(
                                            stored, update_vp.val.addr,
                                            section.val.data)]

\* apply_tx(ctx, tx_data): the result and the storage as the call leaves it.
ApplyTxOn(stored, tx) ==
    LET data == TxData(tx)
    IN  IF ~data.some THEN [result |-> Err("Missing data"), vps |-> stored]
        ELSE LET update_vp == DecodeUpdateVp(data.val)
             IN  IF ~update_vp.ok
                 THEN [result |-> Err("failed to decode UpdateVp"), vps |-> stored]
                 ELSE LET section == TxGetSection(tx, update_vp.val.vp_code)
                      IN  IF ~section.some
                          THEN [result |-> Err("vp code section not found"),
                                vps |-> stored]
                          ELSE IF ~SectionExtraData(section.val).some
                          THEN [result |-> Err("vp code section must be tagged as extra"),
                                vps |-> stored]
                          ELSE [result |-> Ok("unit"),
                                vps |-> UpdateValidityPredicate(
                                            stored, update_vp.val.addr,
                                            SectionExtraData(section.val).val.data)]

\* Data sections passed to set_data: the six payloads that decode to an
\* UpdateVp and one that does not.
VpDatas == {DataSec(0, d) : d \in DOMAIN UpdateVpBytes} \cup {DataSec(0, 1)}

\* Sections passed to add_section.
VpSections == {VpCodeA, VpCodeB, VpAsCode, VpAsData, VpAsSignature, VpAsCiphertext}

InitVp ==
    /\ mode = "Validator"
    /\ abcipp = FALSE
    /\ tx_queue = <<>>
    /\ req = <<>>
    /\ answered = FALSE
    /\ resp = <<>>
    /\ queue_at_call = <<>>
    /\ resolved = 0
    /\ resolved_before = 0
    /\ reemitted = 0
    /\ client_tx = TxNew(DecryptedHeader(ZeroHash, ZeroHash, ZeroHash, FALSE))
    /\ client_op = "new"
    /\ client_result = Ok("unit")
    /\ client_before = client_tx
    /\ client_plain = None
    /\ client_code = None
    /\ client_data = None
    /\ vps = NoVps
    /\ vps_before = NoVps

\* The transaction is run on the envelope as it is.
ApplyTx ==
    /\ client_op # "apply_tx"
    /\ vps' = ApplyTxOn(vps, client_tx).vps
    /\ vps_before' = vps
    /\ client_op' = "apply_tx"
    /\ client_result' = ApplyTxOn(vps, client_tx).result
    /\ client_before' = client_tx
    /\ UNCHANGED <<client_tx, client_plain, client_code, client_data, shellVars>>

NextVp ==
    \/ \E data \in VpDatas : SetData(data)
    \/ \E section \in VpSections : AddSection(section)
    \/ ApplyTx

SpecVp == InitVp /\ [][NextVp]_vars

(***************************************************************************)
(* Reading a response.                                                     *)
(***************************************************************************)
\* The byte strings of the response, in order, in either wire format.
RespBytes == [i \in 1..Len(resp) |-> IF abcipp THEN resp[i].tx ELSE resp[i]]

ValidatorAnswered == answered /\ mode = "Validator"

\* The response without its last Len(queue_at_call) transactions, and those.
NumKept == Len(resp) - Len(queue_at_call)
KeptPart == SubSeq(RespBytes, 1, NumKept)
QueuePart == SubSeq(RespBytes, NumKept + 1, Len(resp))

TotalLen(txs) == SumSeq([i \in 1..Len(txs) |-> txs[i].len])

\* a is b with some elements left out.
RECURSIVE IsSubsequence(_, _)
IsSubsequence(a, b) ==
    IF a = <<>> THEN TRUE
    ELSE IF b = <<>> THEN FALSE
    ELSE IF Head(a) = Head(b) THEN IsSubsequence(Tail(a), Tail(b))
    ELSE IsSubsequence(a, Tail(b))

\* The candidates of the request that decode to a wrapper with a valid
\* signature, in order.
AdmittedOf(txs) == SelectSeq(txs, IsProcessedWrapper)

\* The header of a byte string of the response.
HeaderOf(tx_bytes) == TxTryFrom(tx_bytes).val.outer_data

IsDecryptedHeaded(tx_bytes) ==
    /\ TxTryFrom(tx_bytes).ok
    /\ HeaderOf(tx_bytes).type \in {"Decrypted", "Undecryptable"}

\* The sections of an envelope with every ciphertext replaced by the
\* section it encrypts.
PlainSections(sections) ==
    [i \in 1..Len(sections) |->
        IF sections[i].kind = "Ciphertext" THEN sections[i].plain ELSE sections[i]]

\* An entry decrypts: every ciphertext is under the key of the proposer
\* and the decrypted envelope holds the data and code its header names.
Decryptable(entry) ==
    LET sections == entry.inner_tx.sections
        plain == PlainSections(sections)
    IN  /\ \A i \in 1..Len(sections) :
              sections[i].kind = "Ciphertext" => sections[i].key = PrivkeyGenerator
        /\ \E i \in 1..Len(plain) :
              /\ plain[i].kind = "Data"
              /\ SectionHash(plain[i]) = entry.inner_tx.outer_data.data_hash
        /\ \E i \in 1..Len(plain) :
              /\ plain[i].kind = "Code"
              /\ SectionHash(plain[i]) = entry.inner_tx.outer_data.code_hash

(***************************************************************************)
(* C1. Greedy-prefix budget (plain-list build): on a validator the kept    *)
(* mempool transactions are a prefix of the admitted candidates, their     *)
(* lengths sum to at most HALF_MAX_PROPOSAL_SIZE (exactly reaching it is   *)
(* allowed), and the first admitted candidate left out is one that would   *)
(* have pushed the sum past the budget; nothing after it is kept.          *)
(***************************************************************************)
C1_GreedyPrefixBudget ==
    (ValidatorAnswered /\ ~abcipp) =>
        LET admitted == AdmittedOf(req)
            k == NumKept
        IN  /\ k >= 0 /\ k <= Len(admitted)
            /\ KeptPart = SubSeq(admitted, 1, k)
            /\ TotalLen(KeptPart) <= HALF_MAX_PROPOSAL_SIZE
            /\ k < Len(admitted) =>
                  TotalLen(KeptPart) + admitted[k + 1].len > HALF_MAX_PROPOSAL_SIZE

\* A proposal that stopped at an admitted candidate over budget although
\* the admitted candidate after it would have fitted.
C1_Witness ==
    /\ ValidatorAnswered /\ ~abcipp
    /\ Len(AdmittedOf(req)) = 3
    /\ NumKept = 1
    /\ TotalLen(KeptPart) + AdmittedOf(req)[3].len <= HALF_MAX_PROPOSAL_SIZE

(***************************************************************************)
(* C2. Queue ordering: on a validator the response is kept mempool         *)
(* candidates in arrival order followed by one transaction per queue       *)
(* entry in enqueue order; every queue-derived transaction comes after     *)
(* every mempool-sourced one.                                              *)
(***************************************************************************)
C2_QueueOrdering ==
    ValidatorAnswered =>
        /\ NumKept >= 0
        /\ IsSubsequence(KeptPart, req)
        /\ \A i \in 1..NumKept : ~IsDecryptedHeaded(RespBytes[i])
        /\ abcipp => \A i \in 1..Len(resp) :
              resp[i].action = IF i <= NumKept THEN "Unmodified" ELSE "Added"
        /\ \A i \in 1..Len(queue_at_call) :
              LET entry == queue_at_call[i]
                  emitted == QueuePart[i]
              IN  /\ IsDecryptedHeaded(emitted)
                  /\ HeaderOf(emitted).type = "Decrypted" =>
                        /\ HeaderOf(emitted).header_hash = TxHeaderHash(entry.inner_tx)
                        /\ HeaderOf(emitted).has_valid_pow = entry.has_valid_pow
                  /\ HeaderOf(emitted).type = "Undecryptable" =>
                        HeaderOf(emitted).wrapper = entry.tx

\* Two kept mempool wrappers followed by the transactions of two different
\* queue entries.
C2_Witness ==
    /\ ValidatorAnswered
    /\ NumKept = 2
    /\ Len(queue_at_call) = 2
    /\ queue_at_call[1] # queue_at_call[2]

(***************************************************************************)
(* C3 as stated: building a proposal drains the queue, so after a          *)
(* proposal on a validator the queue is empty and no entry an earlier      *)
(* proposal resolved is emitted again.                                     *)
(***************************************************************************)
C3_QueueDrained ==
    ValidatorAnswered => (tx_queue = <<>> /\ reemitted = 0)

(***************************************************************************)
(* C3 as amended: building a proposal only reads the queue.  After a       *)
(* proposal on a validator every entry it resolved is still queued at its  *)
(* position, and every entry an earlier proposal had resolved was emitted  *)
(* again by this one.                                                      *)
(***************************************************************************)
C3_QueueKeptAndReemitted ==
    ValidatorAnswered =>
        /\ resolved = Len(queue_at_call)
        /\ \A i \in 1..Len(queue_at_call) :
              i <= Len(tx_queue) /\ tx_queue[i] = queue_at_call[i]
        /\ reemitted = resolved_before
        /\ Len(resp) >= Len(queue_at_call)

\* A second proposal over entries the first one had already resolved.
C3_Witness ==
    /\ ValidatorAnswered
    /\ resolved_before = 2
    /\ reemitted = 2

(***************************************************************************)
(* C4. prepare_proposal leaves the storage as it found it, in validator    *)
(* mode or not: the queue after the call is the queue before the call.     *)
(***************************************************************************)
C4_StorageUnchanged == answered => tx_queue = queue_at_call

\* A proposal built by a node that is not a validator over a queue of two.
C4_Witness ==
    /\ answered
    /\ mode = "Full"
    /\ Len(queue_at_call) = 2
    /\ Len(req) > 0

(***************************************************************************)
(* C5. Every queued entry is addressed: on a validator the response holds  *)
(* exactly one Decrypted-headed transaction per queue entry whatever the   *)
(* sizes, and an entry is Resolved exactly when it decrypts, whatever the  *)
(* other entries do.                                                       *)
(***************************************************************************)
C5_EveryEntryAddressed ==
    ValidatorAnswered =>
        /\ Cardinality({i \in 1..Len(resp) : IsDecryptedHeaded(RespBytes[i])})
              = Len(queue_at_call)
        /\ Len(QueuePart) = Len(queue_at_call)
        /\ \A i \in 1..Len(queue_at_call) :
              /\ IsDecryptedHeaded(QueuePart[i])
              /\ (HeaderOf(QueuePart[i]).type = "Decrypted") <=> Decryptable(queue_at_call[i])

\* A full mempool half, then an entry that fails to decrypt followed by
\* one that decrypts, the queue-derived transactions alone exceeding the
\* budget of the mempool half.
C5_Witness ==
    /\ ValidatorAnswered
    /\ TotalLen(KeptPart) = HALF_MAX_PROPOSAL_SIZE
    /\ Len(queue_at_call) = 2
    /\ ~Decryptable(queue_at_call[1])
    /\ Decryptable(queue_at_call[2])
    /\ TotalLen(QueuePart) > HALF_MAX_PROPOSAL_SIZE

(***************************************************************************)
(* C6 as stated: when Tx::decrypt returns an error the envelope is as it   *)
(* was before the call; no section has been replaced by its plaintext.     *)
(***************************************************************************)
C6_FailedDecryptLeavesEnvelope ==
    (client_op = "decrypt" /\ ~client_result.ok) => client_tx = client_before

(***************************************************************************)
(* C7 as stated: for every queue entry whose decryption fails the          *)
(* response carries the entry's stored inner envelope, sections still      *)
(* encrypted, under the header Undecryptable(entry's wrapper header).      *)
(***************************************************************************)
C7_UndecryptableCarriesStoredEnvelope ==
    ValidatorAnswered =>
        \A i \in 1..Len(queue_at_call) :
            LET entry == queue_at_call[i]
            IN  ~Decryptable(entry) =>
                    QueuePart[i] =
                        TxToBytes([entry.inner_tx EXCEPT
                                      !.outer_data = UndecryptableHeader(entry.tx)])

(***************************************************************************)
(* C8. Resolved synthesis: for every queue entry that decrypts the         *)
(* response carries the decrypted sections under the header Decrypted with *)
(* header_hash the hash of the stored inner envelope's header, code_hash   *)
(* and data_hash those of the entry's wrapper header, and has_valid_pow    *)
(* the entry's flag.                                                       *)
(***************************************************************************)
C8_ResolvedSynthesis ==
    ValidatorAnswered =>
        \A i \in 1..Len(queue_at_call) :
            LET entry == queue_at_call[i]
            IN  Decryptable(entry) =>
                    /\ i <= Len(QueuePart)
                    /\ QueuePart[i] =
                        TxToBytes([outer_data |->
                                      [type |-> "Decrypted",
                                       header_hash |-> TxTypeHash(entry.inner_tx.outer_data),
                                       code_hash |-> entry.tx.code_hash,
                                       data_hash |-> entry.tx.data_hash,
                                       has_valid_pow |-> entry.has_valid_pow],
                                   outer_extra |-> entry.inner_tx.outer_extra,
                                   sections |-> PlainSections(entry.inner_tx.sections)])

\* A resolved entry whose wrapper header names other hashes than the header
\* of its inner envelope, and whose proof-of-work flag is set.
C8_Witness ==
    /\ ValidatorAnswered
    /\ \E i \in 1..Len(queue_at_call) :
          /\ Decryptable(queue_at_call[i])
          /\ queue_at_call[i].has_valid_pow
          /\ queue_at_call[i].tx.code_hash # queue_at_call[i].inner_tx.outer_data.code_hash
          /\ HeaderOf(QueuePart[i]).type = "Decrypted"

(***************************************************************************)
(* C9. Non-wrapper exclusion: a candidate that fails to decode (frame or   *)
(* schema) or whose header is not Wrapper is not among the transactions of *)
(* the response, and every kept transaction decodes to a Wrapper header.   *)
(***************************************************************************)
NotAWrapper(tx_bytes) ==
    ~TxTryFrom(tx_bytes).ok \/ TxTryFrom(tx_bytes).val.outer_data.type # "Wrapper"

C9_NonWrapperExcluded ==
    ValidatorAnswered =>
        /\ \A j \in 1..Len(req) :
              NotAWrapper(req[j]) => \A i \in 1..Len(resp) : RespBytes[i] # req[j]
        /\ \A i \in 1..NumKept : ~NotAWrapper(RespBytes[i])

\* A proposal answered for a request holding a candidate with a broken
\* frame, one with a broken schema and a Raw one, next to a kept wrapper.
C9_Witness ==
    /\ ValidatorAnswered
    /\ \E j \in 1..Len(req) : ~req[j].frame
    /\ \E j \in 1..Len(req) : req[j].frame /\ ~req[j].data.ok
    /\ \E j \in 1..Len(req) : TxTryFrom(req[j]).ok /\ HeaderOf(req[j]).type = "Raw"

(***************************************************************************)
(* C10 as stated: in both wire formats a rejected candidate consumes no    *)
(* budget and does not end the scan: every admitted candidate that fits    *)
(* the budget together with the admitted candidates before it is kept.     *)
(***************************************************************************)
C10_RejectedAreSkipped ==
    ValidatorAnswered =>
        \A j \in 1..Len(req) :
            (/\ IsProcessedWrapper(req[j])
             /\ TotalLen(AdmittedOf(SubSeq(req, 1, j))) <= HALF_MAX_PROPOSAL_SIZE)
            => \E i \in 1..NumKept : KeptPart[i] = req[j]

(***************************************************************************)
(* What the claims about admission speak of.                               *)
(***************************************************************************)
\* A candidate decodes to an envelope under a Wrapper header.
DecodableWrapper(tx_bytes) == ~NotAWrapper(tx_bytes)

\* Processing the candidate returns an error.
ProcessingFails(tx_bytes) ==
    TxTryFrom(tx_bytes).ok /\ ~ProcessTx(TxTryFrom(tx_bytes).val).ok

\* A candidate decodes to an envelope under a Wrapper header and processing
\* it returns no error.
ProcessedAsWrapper(tx_bytes) == DecodableWrapper(tx_bytes) /\ ~ProcessingFails(tx_bytes)

(***************************************************************************)
(* C11 as stated (plain-list build): a candidate is admitted exactly when  *)
(* it decodes to an envelope under a Wrapper header, whatever its          *)
(* signature: every such candidate that fits the budget together with the  *)
(* such candidates before it is kept.                                      *)
(***************************************************************************)
C11_AdmittedIffDecodableWrapper ==
    (ValidatorAnswered /\ ~abcipp) =>
        /\ \A i \in 1..NumKept : DecodableWrapper(KeptPart[i])
        /\ \A j \in 1..Len(req) :
              (/\ DecodableWrapper(req[j])
               /\ TotalLen(SelectSeq(SubSeq(req, 1, j), DecodableWrapper))
                     <= HALF_MAX_PROPOSAL_SIZE)
              => \E i \in 1..NumKept : KeptPart[i] = req[j]

(***************************************************************************)
(* C11 as amended: a candidate is admitted exactly when it decodes to an   *)
(* envelope, processing the envelope returns no error and its header is    *)
(* Wrapper.  Every kept transaction is such a candidate; such a candidate  *)
(* preceded only by such candidates and within the budget is kept; and in  *)
(* the plain-list build the kept transactions are the such candidates up   *)
(* to the budget, a candidate that is not such being passed over.          *)
(***************************************************************************)
C11_AdmittedIffProcessedWrapper ==
    ValidatorAnswered =>
        /\ \A i \in 1..NumKept : ProcessedAsWrapper(KeptPart[i])
        /\ \A j \in 1..Len(req) :
              (/\ \A m \in 1..j : ProcessedAsWrapper(req[m])
               /\ TotalLen(SubSeq(req, 1, j)) <= HALF_MAX_PROPOSAL_SIZE)
              => (j <= NumKept /\ KeptPart[j] = req[j])
        /\ ~abcipp =>
              \A j \in 1..Len(req) :
                  (/\ ProcessedAsWrapper(req[j])
                   /\ TotalLen(SelectSeq(SubSeq(req, 1, j), ProcessedAsWrapper))
                         <= HALF_MAX_PROPOSAL_SIZE)
                  => \E i \in 1..NumKept : KeptPart[i] = req[j]

\* A request holding a decodable Wrapper-headed candidate without signature
\* ahead of a signed wrapper: the first is left out, the second is kept.
C11_Witness ==
    /\ ValidatorAnswered /\ ~abcipp
    /\ Len(req) = 2
    /\ DecodableWrapper(req[1]) /\ ProcessingFails(req[1])
    /\ ProcessedAsWrapper(req[2])
    /\ KeptPart = <<req[2]>>

(***************************************************************************)
(* C12. A candidate for which processing returns an error is not kept, in  *)
(* either build; in the plain-list build a validator's proposal for a      *)
(* request holding only such a candidate, over an empty queue, is empty.   *)
(***************************************************************************)
C12_ProcessingErrorNotKept ==
    ValidatorAnswered =>
        /\ \A i \in 1..NumKept : ~ProcessingFails(KeptPart[i])
        /\ (/\ ~abcipp
            /\ Len(req) = 1
            /\ ProcessingFails(req[1])
            /\ queue_at_call = <<>>) => resp = <<>>

\* The request of test_error_in_processing_tx answered in the plain-list
\* build: one encrypted wrapper without signature, the queue empty.
C12_Witness ==
    /\ ValidatorAnswered /\ ~abcipp
    /\ req = <<UnsignedBytes>>
    /\ ProcessingFails(req[1])
    /\ queue_at_call = <<>>
    /\ resp = <<>>

(***************************************************************************)
(* C13 as stated: in the action-tagged build a validator's proposal for a  *)
(* request holding only one rejected candidate, over an empty queue, is    *)
(* exactly the record Removed carrying the candidate's bytes.              *)
(***************************************************************************)
C13_RejectedReturnedAsRemoved ==
    (/\ ValidatorAnswered /\ abcipp
     /\ Len(req) = 1
     /\ ~ProcessedAsWrapper(req[1])
     /\ queue_at_call = <<>>) => resp = <<RecordRemove(req[1])>>

(***************************************************************************)
(* C14. A node that is not in validator mode answers every request with    *)
(* the empty proposal, whatever the mempool candidates and the queue.      *)
(***************************************************************************)
C14_NonValidatorEmpty == (answered /\ mode # "Validator") => resp = <<>>

\* A node that is not a validator answering a request that holds a signed
\* wrapper within the budget while an entry that decrypts is queued.
C14_Witness ==
    /\ answered
    /\ mode # "Validator"
    /\ \E j \in 1..Len(req) : ProcessedAsWrapper(req[j])
    /\ \E i \in 1..Len(queue_at_call) : Decryptable(queue_at_call[i])
    /\ resp = <<>>

(***************************************************************************)
(* What the claims about encrypt and decrypt speak of.                     *)
(***************************************************************************)
\* The last operation was a decrypt with the proposer's key directly after
\* an encrypt under the matching encryption key.
DecryptedAfterEncrypt ==
    /\ client_op = "decrypt"
    /\ client_plain.some
    /\ KeyMatches(client_plain.val.key, PrivkeyGenerator)

\* The header's data_hash names a Data section and its code_hash a Code
\* section among sections.
NamesDataAndCode(header, sections) ==
    /\ \E i \in 1..Len(sections) :
          /\ sections[i].kind = "Data"
          /\ SectionHash(sections[i]) = TxDataHash([outer_data |-> header])
    /\ \E i \in 1..Len(sections) :
          /\ sections[i].kind = "Code"
          /\ SectionHash(sections[i]) = TxCodeHash([outer_data |-> header])

\* Section s is exempt from encryption in an envelope under header.
Exempt(header, s) == s.kind = "Signature" /\ s.target = TxTypeHash(header)

(***************************************************************************)
(* C16 as stated: for every envelope e and matching keypair,               *)
(* decrypt(encrypt(e, pub), priv) returns success and leaves the envelope  *)
(* with the header of e and the sections of e in the same order.           *)
(***************************************************************************)
C16_EncryptDecryptInverse ==
    DecryptedAfterEncrypt =>
        /\ client_result.ok
        /\ client_tx.outer_data = client_plain.val.tx.outer_data
        /\ client_tx.sections = client_plain.val.tx.sections

(***************************************************************************)
(* C16 as amended: for every envelope e and matching keypair,              *)
(* decrypt(encrypt(e, pub), priv) leaves the envelope with the header of e *)
(* and the sections of e in the same order: every section that is not a    *)
(* ciphertext is equal to the one of e, and every section encodes to the   *)
(* bytes the one of e encodes to.  It returns success exactly when the     *)
(* header of e names a Data and a Code section of e, and the error         *)
(* DecryptedHash otherwise.                                                *)
(***************************************************************************)
C16_EncryptDecryptRestores ==
    DecryptedAfterEncrypt =>
        LET e == client_plain.val.tx
        IN  /\ client_tx.outer_data = e.outer_data
            /\ client_tx.outer_extra = e.outer_extra
            /\ Len(client_tx.sections) = Len(e.sections)
            /\ \A i \in 1..Len(e.sections) :
                  /\ i <= Len(client_tx.sections)
                  /\ SerializeSection(client_tx.sections[i]) = SerializeSection(e.sections[i])
                  /\ e.sections[i].kind # "Ciphertext" => client_tx.sections[i] = e.sections[i]
            /\ client_result.ok <=> NamesDataAndCode(e.outer_data, e.sections)
            /\ ~client_result.ok => client_result.err = "DecryptedHash"

\* An envelope with code, data and a signature over its header hash,
\* encrypted and decrypted back with success.
C16_Witness ==
    /\ DecryptedAfterEncrypt
    /\ client_result.ok
    /\ Len(client_plain.val.tx.sections) = 3
    /\ \E i \in 1..3 : Exempt(client_plain.val.tx.outer_data, client_plain.val.tx.sections[i])
    /\ \E i \in 1..3 : client_before.sections[i].kind = "Ciphertext"

(***************************************************************************)
(* C17 as stated: for every valid envelope, also one holding ciphertext    *)
(* sections made by encrypt, decoding the bytes of to_bytes succeeds and   *)
(* yields an envelope equal to it in header and in every field of every    *)
(* section.                                                                *)
(***************************************************************************)
C17_CodecRoundTrip ==
    LET decoded == TxTryFrom(TxToBytes(client_tx))
    IN  decoded.ok /\ decoded.val = client_tx

(***************************************************************************)
(* C18. Decrypt outcome: Tx::decrypt returns success exactly when every    *)
(* ciphertext section decrypts under the key and, the ciphertexts replaced *)
(* by what they hide, the header's data_hash names a Data section and its  *)
(* code_hash a Code section; a ciphertext failure gives InvalidTx, a       *)
(* missing code or data section gives DecryptedHash.                       *)
(***************************************************************************)
C18_DecryptOutcome ==
    client_op = "decrypt" =>
        LET before == client_before.sections
            allDecrypt ==
                \A i \in 1..Len(before) :
                    before[i].kind = "Ciphertext" =>
                        KeyMatches(before[i].key, PrivkeyGenerator)
            replaced ==
                [i \in 1..Len(before) |->
                    IF before[i].kind = "Ciphertext"
                    THEN DeserializeSection(before[i].plain)
                    ELSE before[i]]
            resolves == NamesDataAndCode(client_before.outer_data, replaced)
        IN  /\ client_result.ok <=> (allDecrypt /\ resolves)
            /\ ~allDecrypt => client_result = Err("InvalidTx")
            /\ (allDecrypt /\ ~resolves) => client_result = Err("DecryptedHash")

\* A decrypt that failed only for want of the code section: every
\* ciphertext decrypted and the data section is there.
C18_Witness ==
    /\ client_op = "decrypt"
    /\ client_result = Err("DecryptedHash")
    /\ \E i \in 1..Len(client_before.sections) :
          client_before.sections[i].kind = "Ciphertext"
    /\ TxData(client_tx).some
    /\ ~TxCode(client_tx).some

(***************************************************************************)
(* C19. Encrypt exemption rule: after Tx::encrypt the header, the number   *)
(* and the order of the sections are as before; a Signature section whose  *)
(* target is the header hash is unchanged, and every other section is a    *)
(* ciphertext, under the key given, of the section that was at its index.  *)
(***************************************************************************)
C19_EncryptExemption ==
    client_op = "encrypt" =>
        LET e == client_before
            pubkey == client_plain.val.key
        IN  /\ client_tx.outer_data = e.outer_data
            /\ Len(client_tx.sections) = Len(e.sections)
            /\ \A i \in 1..Len(e.sections) :
                  /\ i <= Len(client_tx.sections)
                  /\ IF Exempt(e.outer_data, e.sections[i])
                     THEN client_tx.sections[i] = e.sections[i]
                     ELSE /\ client_tx.sections[i].kind = "Ciphertext"
                          /\ client_tx.sections[i].key = pubkey
                          /\ client_tx.sections[i].plain = SerializeSection(e.sections[i])
                          /\ client_tx.sections[i].length = SectionLen(e.sections[i])

\* An encrypt of an envelope holding a signature over an earlier header
\* hash, a data section and a signature over the present header hash.
C19_Witness ==
    /\ client_op = "encrypt"
    /\ \E i \in 1..Len(client_before.sections) :
          Exempt(client_before.outer_data, client_before.sections[i])
    /\ \E i \in 1..Len(client_before.sections) :
          /\ client_before.sections[i].kind = "Signature"
          /\ ~Exempt(client_before.outer_data, client_before.sections[i])
          /\ client_tx.sections[i].kind = "Ciphertext"
    /\ \E i \in 1..Len(client_before.sections) : client_before.sections[i].kind = "Data"

(***************************************************************************)
(* C20. Wrapper-level authorization survives encryption: if                *)
(* verify_signature(pk, header_hash()) succeeds on an envelope, it         *)
(* succeeds with the same arguments after Tx::encrypt, nothing decrypted.  *)
(***************************************************************************)
C20_AuthorizationSurvivesEncrypt ==
    client_op = "encrypt" =>
        \A pk \in {WrapperSigner, WrapperSigner + 1} :
            TxVerifySignature(client_before, pk, TxHeaderHash(client_before)).ok
            => /\ TxHeaderHash(client_tx) = TxHeaderHash(client_before)
               /\ TxVerifySignature(client_tx, pk, TxHeaderHash(client_before)).ok

\* An envelope whose signature over the header hash verified before the
\* encrypt that turned its code and data into ciphertexts.
C20_Witness ==
    /\ client_op = "encrypt"
    /\ TxVerifySignature(client_before, WrapperSigner, TxHeaderHash(client_before)).ok
    /\ TxVerifySignature(client_tx, WrapperSigner, TxHeaderHash(client_tx)).ok
    /\ Cardinality({i \in 1..Len(client_tx.sections) :
                       client_tx.sections[i].kind = "Ciphertext"}) = 2

(***************************************************************************)
(* C21. Content-addressing under mutation: after any sequence of set_code, *)
(* set_data and add_section on an envelope of any header variant,          *)
(* code_hash() is the hash of the Code section of the last set_code and    *)
(* get_section(code_hash()) is a Code section with that payload, likewise  *)
(* data_hash() and set_data; set_code leaves data_hash and set_data leaves *)
(* code_hash as it was, add_section leaves both; each of the three calls   *)
(* appends one section and leaves the earlier ones as they were.           *)
(***************************************************************************)
C21_ContentAddressing ==
    /\ client_code.some =>
          /\ TxCodeHash(client_tx) = SectionHash(client_code.val)
          /\ TxGetSection(client_tx, TxCodeHash(client_tx)).some
          /\ TxGetSection(client_tx, TxCodeHash(client_tx)).val.kind = "Code"
          /\ TxGetSection(client_tx, TxCodeHash(client_tx)).val.code = client_code.val.code
          /\ TxCode(client_tx) = Some(client_code.val.code)
    /\ client_data.some =>
          /\ TxDataHash(client_tx) = SectionHash(client_data.val)
          /\ TxGetSection(client_tx, TxDataHash(client_tx)).some
          /\ TxGetSection(client_tx, TxDataHash(client_tx)).val.kind = "Data"
          /\ TxGetSection(client_tx, TxDataHash(client_tx)).val.data = client_data.val.data
          /\ TxData(client_tx) = Some(client_data.val.data)
    /\ client_op = "set_code" => TxDataHash(client_tx) = TxDataHash(client_before)
    /\ client_op = "set_data" => TxCodeHash(client_tx) = TxCodeHash(client_before)
    /\ client_op = "add_section" =>
          /\ TxCodeHash(client_tx) = TxCodeHash(client_before)
          /\ TxDataHash(client_tx) = TxDataHash(client_before)
    /\ client_op \in {"set_code", "set_data", "add_section"} =>
          /\ Len(client_tx.sections) = Len(client_before.sections) + 1
          /\ SubSeq(client_tx.sections, 1, Len(client_before.sections))
                = client_before.sections

\* An envelope under an Undecryptable header after set_code, a first
\* set_data, and a second set_data with another section.
C21_Witness ==
    /\ client_tx.outer_data.type = "Undecryptable"
    /\ client_op = "set_data"
    /\ client_code.some
    /\ client_data.some
    /\ Len(client_tx.sections) = 3
    /\ client_tx.sections[2].kind = "Data"
    /\ client_tx.sections[2] # client_data.val

(***************************************************************************)
(* C22. Section identity: the hash of a section starts with the tag of its *)
(* kind (Data 0, ExtraData 1, Code 2, Signature 3, Ciphertext 4), so       *)
(* sections of different kinds, also with the same salt and payload, have  *)
(* different hashes, and two Data sections with the same payload and       *)
(* different salts have different hashes.                                  *)
(***************************************************************************)
C22_SectionIdentity ==
    \A i \in 1..Len(client_tx.sections) :
        LET a == client_tx.sections[i]
        IN  /\ Head(SectionHash(a)) =
                  CASE a.kind = "Data" -> 0
                    [] a.kind = "ExtraData" -> 1
                    [] a.kind = "Code" -> 2
                    [] a.kind = "Signature" -> 3
                    [] a.kind = "Ciphertext" -> 4
            /\ \A j \in 1..Len(client_tx.sections) :
                  LET b == client_tx.sections[j]
                  IN  /\ a.kind # b.kind => SectionHash(a) # SectionHash(b)
                      /\ (/\ a.kind = "Data" /\ b.kind = "Data"
                          /\ a.data = b.data
                          /\ a.salt # b.salt) => SectionHash(a) # SectionHash(b)

\* An envelope holding a Code and a Data section of the same salt and
\* payload, and a second Data section of that payload under another salt.
C22_Witness ==
    \E i, j, k \in 1..Len(client_tx.sections) :
        /\ client_tx.sections[i].kind = "Code"
        /\ client_tx.sections[j].kind = "Data"
        /\ client_tx.sections[k].kind = "Data"
        /\ client_tx.sections[i].salt = client_tx.sections[j].salt
        /\ client_tx.sections[i].code = client_tx.sections[j].data
        /\ client_tx.sections[k].data = client_tx.sections[j].data
        /\ client_tx.sections[k].salt # client_tx.sections[j].salt

(***************************************************************************)
(* What the claims about verify_signature speak of.                        *)
(***************************************************************************)
\* The public keys and hashes verify_signature is asked about: the signer
\* and another key, the header hash and every target a section names.
AskedKeys == {WrapperSigner, WrapperSigner + 1}

AskedHashes ==
    {TxHeaderHash(client_tx)}
        \cup {client_tx.sections[i].target :
                i \in {j \in 1..Len(client_tx.sections) :
                          client_tx.sections[j].kind = "Signature"}}

\* The indices of the plaintext signature sections with this key and target.
MatchingSignatures(pk, hash) ==
    {i \in 1..Len(client_tx.sections) :
        /\ client_tx.sections[i].kind = "Signature"
        /\ client_tx.sections[i].pub_key = pk
        /\ client_tx.sections[i].target = hash}

(***************************************************************************)
(* C23 as stated: verify_signature(pk, hash) returns MissingData when no   *)
(* plaintext signature section has this key and target, otherwise the      *)
(* scheme's result for such a section, and it succeeds whenever the        *)
(* envelope holds at least one valid matching signature.                   *)
(***************************************************************************)
C23_VerifyAnyValidSignature ==
    \A pk \in AskedKeys : \A hash \in AskedHashes :
        LET matching == MatchingSignatures(pk, hash)
            r == TxVerifySignature(client_tx, pk, hash)
        IN  /\ matching = {} => r = Err("MissingData")
            /\ matching # {} =>
                  \E i \in matching :
                      r = VerifySignatureRaw(pk, hash, client_tx.sections[i].signature)
            /\ (\E i \in matching :
                   VerifySignatureRaw(pk, hash, client_tx.sections[i].signature).ok)
               => r.ok

(***************************************************************************)
(* C23 as amended: verify_signature(pk, hash) returns MissingData when no  *)
(* plaintext signature section has this key and target, otherwise the      *)
(* scheme's result for the first such section in section order; it         *)
(* succeeds exactly when that first section's signature is valid.          *)
(***************************************************************************)
C23_VerifyFirstMatchingSignature ==
    \A pk \in AskedKeys : \A hash \in AskedHashes :
        LET matching == MatchingSignatures(pk, hash)
            r == TxVerifySignature(client_tx, pk, hash)
        IN  /\ matching = {} => r = Err("MissingData")
            /\ matching # {} =>
                  LET first == CHOOSE i \in matching : \A j \in matching : i <= j
                      verdict == VerifySignatureRaw(pk, hash,
                                                    client_tx.sections[first].signature)
                  IN  r = verdict

\* An envelope whose first signature section for the signer and the header
\* hash is forged and whose second is valid: verify_signature fails.
C23_Witness ==
    LET matching == MatchingSignatures(WrapperSigner, TxHeaderHash(client_tx))
    IN  /\ Cardinality(matching) = 2
        /\ \E i \in matching :
              VerifySignatureRaw(WrapperSigner, TxHeaderHash(client_tx),
                                 client_tx.sections[i].signature).ok
        /\ ~TxVerifySignature(client_tx, WrapperSigner, TxHeaderHash(client_tx)).ok

(***************************************************************************)
(* C24. apply_tx of tx_update_vp succeeds exactly when the data section of *)
(* the transaction resolves, its payload decodes as UpdateVp, and          *)
(* get_section(vp_code) finds a section tagged ExtraData; then the         *)
(* predicate stored for update_vp.addr is that section's payload and no    *)
(* other address changes.  In every other case (data missing or            *)
(* undecodable, section absent, section of another kind) it returns an     *)
(* error and the stored predicates are as before.                          *)
(***************************************************************************)
C24_UpdateVpOnlyFromExtraData ==
    client_op = "apply_tx" =>
        LET sections == client_tx.sections
            datas == {i \in 1..Len(sections) :
                         /\ sections[i].kind = "Data"
                         /\ SectionHash(sections[i]) = TxDataHash(client_tx)}
            payloads == {sections[i].data : i \in datas}
            decodable == {d \in payloads : d \in DOMAIN UpdateVpBytes}
            named == {i \in 1..Len(sections) :
                         \E d \in decodable :
                             SectionHash(sections[i]) = UpdateVpBytes[d].vp_code}
            extras == {i \in named : sections[i].kind = "ExtraData"}
        IN  /\ client_result.ok <=> extras # {}
            /\ client_result.ok =>
                  \E d \in decodable : \E i \in extras :
                      /\ vps[UpdateVpBytes[d].addr] = Some(sections[i].data)
                      /\ \A a \in VpAddresses :
                            a # UpdateVpBytes[d].addr => vps[a] = vps_before[a]
            /\ ~client_result.ok => vps = vps_before
            /\ (datas = {}) => client_result = Err("Missing data")
            /\ (named # {} /\ extras = {}) =>
                  client_result = Err("vp code section must be tagged as extra")

\* An update that stored the payload of the ExtraData section its data
\* names, the envelope also holding a Code section of the same salt and
\* payload.
C24_Witness ==
    /\ client_op = "apply_tx"
    /\ client_result.ok
    /\ \E a \in VpAddresses : vps[a].some /\ ~vps_before[a].some
    /\ \E i, j \in 1..Len(client_tx.sections) :
          /\ client_tx.sections[i].kind = "ExtraData"
          /\ client_tx.sections[j].kind = "Code"
          /\ client_tx.sections[j].code = client_tx.sections[i].data

(***************************************************************************)
(* C25. Every Resolved transaction of a proposal is complete: for a queue  *)
(* entry whose wrapper header is the header of its stored inner envelope   *)
(* and whose decryption succeeds, the emitted transaction's code_hash      *)
(* resolves through get_section to a Code section and its data_hash to a   *)
(* Data section among its own sections.                                    *)
(***************************************************************************)
C25_ResolvedIsComplete ==
    ValidatorAnswered =>
        \A i \in 1..Len(queue_at_call) :
            LET entry == queue_at_call[i]
            IN  (entry.tx = entry.inner_tx.outer_data /\ Decryptable(entry)) =>
                    /\ i <= Len(QueuePart)
                    /\ TxTryFrom(QueuePart[i]).ok
                    /\ LET emitted == TxTryFrom(QueuePart[i]).val
                       IN  /\ emitted.outer_data.type = "Decrypted"
                           /\ TxGetSection(emitted, TxCodeHash(emitted)).some
                           /\ TxGetSection(emitted, TxCodeHash(emitted)).val.kind = "Code"
                           /\ TxGetSection(emitted, TxDataHash(emitted)).some
                           /\ TxGetSection(emitted, TxDataHash(emitted)).val.kind = "Data"
                           /\ TxCode(emitted).some
                           /\ TxData(emitted).some

\* A proposal emitting the Resolved transaction of an entry enqueued under
\* the header of its inner envelope, in the action-tagged build.
C25_Witness ==
    /\ ValidatorAnswered /\ abcipp
    /\ \E i \in 1..Len(queue_at_call) :
          /\ queue_at_call[i].tx = queue_at_call[i].inner_tx.outer_data
          /\ Decryptable(queue_at_call[i])
          /\ TxCode(TxTryFrom(QueuePart[i]).val).some
          /\ TxData(TxTryFrom(QueuePart[i]).val).some

====
